---- MODULE Spec2Model ----
(***************************************************************************)
(* Hybrid task scheduler (greedy + CP interval) of src/src/scheduler.      *)
(*                                                                         *)
(* Conventions of the model                                                *)
(*  - a date is an integer: the number of days after the current UTC date  *)
(*    (0 = today, 1 = tomorrow); today's weekday is the input today_wd;    *)
(*  - remaining_hours and planned_hours are real numbers in the program;   *)
(*    the model stores them in HALF hours (3 = 1.5 h), so that ceil() and  *)
(*    int() are real conversions;                                          *)
(*  - a key of solution['tasks'] is <<"str", id>> (the greedy path writes  *)
(*    str(int(task_id))) or <<"int", id>> (the CP path writes task_id).    *)
(***************************************************************************)
EXTENDS Integers, Sequences, FiniteSets, TLC

VARIABLES
    tasks,                 \* tasks_df: task id -> row
    row_order,             \* tasks_df: the ids in the order of the input rows
    calendar_slots,        \* calendar_slots_df: set of rows
    leaves,                \* leaves_df: set of rows
    today_wd,              \* weekday of the current date (0 = Monday)
    config,                \* SCHEDULER_CONFIG (config.py), read from the environment
    initial_horizon_days,  \* argument of SchedulingModel(...)
    algorithm_used,        \* SchedulingModel.algorithm_used
    sorted_tasks,          \* the row order of GreedySchedulingModel.tasks_df
    pc,                    \* position inside SchedulingModel.solve()
    horizon_days,          \* GreedySchedulingModel.horizon_days
    extension_attempts,    \* local of GreedySchedulingModel.solve
    extension_log,         \* what solve logs at each horizon extension
    occupied_slots,        \* greedy ledger: set of <<user, date, hour>>
    schedule,              \* local of _greedy_algorithm: task id -> Seq(slot)
    task_idx,              \* position of the greedy loop in the sorted tasks
    greedy_stats,          \* GreedySchedulingModel.stats (the part the model needs)
    cp,                    \* the IntervalSchedulingModel in use (or NoCp)
    solution,              \* SchedulingModel.solution (or NoSolution)
    result,                \* what solve() returned: "none" | "True" | "False" | "raised"
    first_run,             \* the outcome of an earlier greedy solve of the same inputs
    cp_model,              \* the solutions the built CP model admits
    scheduler_status,      \* api.py: the module-level dict scheduler_status
    post,                  \* api.py: request -> position inside ScheduleResource.post
    thread,                \* api.py: request -> position of its _run_scheduler thread
    get_response           \* api.py: the answer of the last GET /schedule/result

vars == <<tasks, row_order, calendar_slots, leaves, today_wd, config, initial_horizon_days,
          algorithm_used, sorted_tasks, pc,
          horizon_days, extension_attempts, extension_log, occupied_slots, schedule,
          task_idx, greedy_stats, cp, solution, result, first_run, cp_model,
          scheduler_status, post, thread, get_response>>

\* the inputs of the run and the row order the greedy constructor derives from them
inputs == <<tasks, row_order, calendar_slots, leaves, today_wd, config, initial_horizon_days,
            sorted_tasks>>

----------------------------------------------------------------------------
(* The API service (api.py).                                               *)

\* the state of the API service
api == <<scheduler_status, post, thread, get_response>>

\* the state of one SchedulingModel
solver == <<tasks, row_order, calendar_slots, leaves, today_wd, config, initial_horizon_days,
            algorithm_used, sorted_tasks, pc, horizon_days, extension_attempts, extension_log,
            occupied_slots, schedule, task_idx, greedy_stats, cp, solution, result,
            first_run, cp_model>>

MaxRequests == 3           \* POST /schedule requests the service receives

Requests == 1..MaxRequests

\* Python's None in a field of scheduler_status
NoneValue == "None"

\* request bodies: accepted by the validation of post and convertible; without 'tasks';
\* accepted by the validation but with an id that astype(int) rejects
Bodies == {"valid", "no_tasks", "bad_types"}

\* how SchedulingModel.solve() ends: it returns True, returns False, or raises
SolveOutcomes == {"True", "False", "raised"}

\* scheduler_status as the module defines it, no request received
ApiIdle ==
    /\ scheduler_status = [status |-> "idle", end_time |-> NoneValue,
                           last_result_path |-> NoneValue]
    /\ post = [r \in Requests |-> [pc |-> "new", body |-> "none", response |-> 0]]
    /\ thread = [r \in Requests |-> [pc |-> "none", outcome |-> "none"]]
    /\ get_response = 0

----------------------------------------------------------------------------
(* Bounds of the explored inputs.                                          *)

NumFillers == 9            \* one-task users added to reach the user threshold
ManyFillers == 19          \* one-task users added to exceed 20 tasks
FarDay == 5000             \* a date after every horizon the model explores
HeavyHalves == 800         \* remaining half hours of the task without calendar

NoColumn == -1             \* task['planned_hours'] when tasks_df has no such column
NoCp == [mode |-> "none"]
NoSolution == [kind |-> "none"]
NoRun == [kind |-> "none"]

----------------------------------------------------------------------------
(* Numeric conversions.                                                    *)

\* math.ceil(x) of a value held in half hours
Ceil(halves) == (halves + 1) \div 2

\* int(x) of a value held in half hours: truncation towards zero
IntTrunc(halves) == IF halves >= 0 THEN halves \div 2 ELSE -((-halves) \div 2)

Min(a, b) == IF a <= b THEN a ELSE b

\* the slice seq[:n] of a list: the first n elements, or all but the last -n
SliceTo(seq, n) ==
    IF n >= 0 THEN SubSeq(seq, 1, Min(n, Len(seq)))
    ELSE IF Len(seq) + n >= 1 THEN SubSeq(seq, 1, Len(seq) + n)
    ELSE <<>>

RECURSIVE SumOver(_, _)
SumOver(S, f) ==
    IF S = {} THEN 0
    ELSE LET x == CHOOSE y \in S : TRUE IN f[x] + SumOver(S \ {x}, f)

\* date.weekday() of the date d days after today
Weekday(d) == (today_wd + d + 7) % 7

TaskIds == DOMAIN tasks
Users == {tasks[t].user_id : t \in TaskIds}
UserTaskIds(u) == {t \in TaskIds : tasks[t].user_id = u}

\* The elements of the finite set S as a sequence, by ascending key[x] (keys distinct).
RECURSIVE SeqByKey(_, _)
SeqByKey(S, key) ==
    IF S = {} THEN <<>>
    ELSE LET m == CHOOSE x \in S : \A y \in S : key[x] <= key[y]
         IN <<m>> \o SeqByKey(S \ {m}, key)

\* The first n elements of S by ascending key, as a sequence.
RECURSIVE FirstByKey(_, _, _)
FirstByKey(S, key, n) ==
    IF n <= 0 \/ S = {} THEN <<>>
    ELSE LET m == CHOOSE x \in S : \A y \in S : key[x] <= key[y]
         IN <<m>> \o FirstByKey(S \ {m}, key, n - 1)

----------------------------------------------------------------------------
(* Greedy scheduler: availability (greedy_model.py).                       *)

GreedyFirstDay == 1        \* get_next_business_date: get_utc_date() + timedelta(days=1)

\* faulty variant of SortsBefore: the sort criteria stop at user_id
SortsBefore_noid(a, b) ==
    LET ta == tasks[a]
        tb == tasks[b]
        la == IF ta.is_leaf_task THEN 1 ELSE 0
        lb == IF tb.is_leaf_task THEN 1 ELSE 0
    IN  \/ ta.priority_score > tb.priority_score
        \/ /\ ta.priority_score = tb.priority_score
           /\ \/ ta.hierarchy_level < tb.hierarchy_level
              \/ /\ ta.hierarchy_level = tb.hierarchy_level
                 /\ \/ la > lb
                    \/ /\ la = lb
                       /\ \/ ta.remaining_hours > tb.remaining_hours
                          \/ /\ ta.remaining_hours = tb.remaining_hours
                             /\ ta.user_id < tb.user_id

\* _sort_tasks_optimally: priority_score DESC, hierarchy_level ASC, is_leaf_task DESC,
\* remaining_hours DESC, user_id ASC, id ASC
SortsBefore(a, b) ==
    LET ta == tasks[a]
        tb == tasks[b]
        la == IF ta.is_leaf_task THEN 1 ELSE 0
        lb == IF tb.is_leaf_task THEN 1 ELSE 0
    IN  \/ ta.priority_score > tb.priority_score
        \/ /\ ta.priority_score = tb.priority_score
           /\ \/ ta.hierarchy_level < tb.hierarchy_level
              \/ /\ ta.hierarchy_level = tb.hierarchy_level
                 /\ \/ la > lb
                    \/ /\ la = lb
                       /\ \/ ta.remaining_hours > tb.remaining_hours
                          \/ /\ ta.remaining_hours = tb.remaining_hours
                             /\ \/ ta.user_id < tb.user_id
                                \/ (ta.user_id = tb.user_id /\ a < b)

\* the position of the row of task t in the input tasks_df
RowPos(t) == CHOOSE k \in 1..Len(row_order) : row_order[k] = t

\* sort_values puts row o before row t: by the sort criteria, and rows that tie on
\* every criterion keep the order of the input (the sort is stable)
PrecedesInSort(o, t) ==
    \/ SortsBefore(o, t)
    \/ o # t /\ ~SortsBefore(t, o) /\ RowPos(o) < RowPos(t)

\* the rows of tasks_df in the order the greedy loop visits them: the row at
\* position k is the one that k - 1 rows precede
SortedTasks ==
    [k \in 1..Cardinality(TaskIds) |->
        CHOOSE t \in TaskIds : Cardinality({o \in TaskIds : PrecedesInSort(o, t)}) = k - 1]

\* faulty variant of DaysWithBuffer: the weeks needed without the 50% buffer
DaysWithBuffer_nobuffer(total_hours) == ((total_hours + 79) \div 80) * 7

\* _calculate_optimal_horizon: the horizon the greedy model starts with
\* days_with_buffer of one user: ceil(total_hours / 40) weeks, int(days * 1.5)
DaysWithBuffer(total_hours) == ((((total_hours + 79) \div 80) * 7) * 3) \div 2

\* the largest element of a finite non-empty set of integers
MaxOf(S) == CHOOSE m \in S : \A x \in S : m >= x

OptimalHorizon(start_days, max_allowed_days) ==
    Min(MaxOf({start_days} \cup
              {DaysWithBuffer(SumOver(UserTaskIds(u), [t \in TaskIds |-> tasks[t].remaining_hours])) :
                  u \in Users}),
        max_allowed_days)

\* the deduplicated (dayofweek, hour_from, hour_to) rows of the user's tasks
UserCalendar(u) ==
    {<<r.dayofweek, r.hour_from, r.hour_to>> :
        r \in {x \in calendar_slots : x.task_id \in UserTaskIds(u)}}

\* faulty variant of LeaveConflict: the first day of a leave is not covered
LeaveConflict_strict(u, d) ==
    \E l \in leaves : l.task_id \in UserTaskIds(u) /\ l.date_from < d /\ d <= l.date_to

\* _apply_leaves_to_blocks: a leave of any task of the user covers date d
LeaveConflict(u, d) ==
    \E l \in leaves : l.task_id \in UserTaskIds(u) /\ l.date_from <= d /\ d <= l.date_to

\* the rows of the user that yield a block on date d (duration_hours > 0)
DayRows(u, d) == {c \in UserCalendar(u) : c[1] = Weekday(d) /\ c[3] - c[2] > 0}

\* AvailableBlock of each row, in generation order.  datetime.combine(...) +
\* timedelta(hours=hour) makes the hour of hour 24 the hour 0 of the next day
BlockSeq(d, ordered) ==
    [i \in 1..Len(ordered) |->
        [date |-> d,
         start_hour |-> ordered[i][2] % 24,
         end_hour |-> ordered[i][3] % 24,
         duration_hours |-> ordered[i][3] - ordered[i][2]]]

\* the rows in the order of the groupby (hour_from, hour_to)
RowOrder(rows) == SeqByKey(rows, [c \in rows |-> c[2] * 25 + c[3]])

\* _generate_available_blocks: the blocks of user u on date d, in generation order
DayBlocks(u, d) == BlockSeq(d, RowOrder(DayRows(u, d)))

\* the dates of the horizon on which available_blocks[u] holds a block
BlockDays(u) ==
    {d \in GreedyFirstDay..(GreedyFirstDay + horizon_days - 1) :
        DayRows(u, d) # {} /\ ~LeaveConflict(u, d)}

\* the blocks appended for the dates lo..hi, date after date
RECURSIVE BlocksBetween(_, _, _)
BlocksBetween(u, lo, hi) ==
    IF lo > hi THEN <<>>
    ELSE IF lo = hi
    THEN IF LeaveConflict(u, lo) THEN <<>> ELSE DayBlocks(u, lo)
    ELSE BlocksBetween(u, lo, (lo + hi) \div 2) \o BlocksBetween(u, ((lo + hi) \div 2) + 1, hi)

\* available_blocks[u] after _generate_available_blocks and _apply_leaves_to_blocks:
\* empty for a user without calendar rows, else the blocks of every date of the
\* horizon in generation order, without those of the dates on leave
AvailableBlocks(u) ==
    IF UserCalendar(u) = {} THEN <<>>
    ELSE BlocksBetween(u, GreedyFirstDay, GreedyFirstDay + horizon_days - 1)

\* faulty variant of BlockHours: the range includes end_hour
BlockHours_inclusive(b) == b.start_hour .. b.end_hour

\* range(start_hour, end_hour) of a block
BlockHours(b) == b.start_hour .. (b.end_hour - 1)

IsFree(u, d, h) == <<u, d, h>> \notin occupied_slots

ScheduledSlot(t, u, d, h) == [task_id |-> t, user_id |-> u, date |-> d, hour |-> h]

\* the (date, block index, hour) of the blocks of one date that are not occupied
BlockFreeEntries(u, d, blocks) ==
    UNION {{<<d, i, h>> : h \in {x \in BlockHours(blocks[i]) : IsFree(u, d, x)}} :
            i \in 1..Len(blocks)}

\* every (date, block index, hour) of the user that is in a block and not occupied;
\* its ascending order is the order in which the block scans meet the hours
FreeEntries(u) == UNION {BlockFreeEntries(u, d, DayBlocks(u, d)) : d \in BlockDays(u)}

EntryKey(e) == (e[1] * 100 + e[2]) * 100 + e[3]

----------------------------------------------------------------------------
(* Greedy scheduler: the four placement strategies.                        *)

\* the maximal runs <<first, last>> of consecutive free hours inside a block
FreeRuns(u, b) ==
    LET H == BlockHours(b)
        free(h) == h \in H /\ IsFree(u, b.date, h)
    IN  {r \in H \X H :
            /\ r[1] <= r[2]
            /\ \A h \in r[1]..r[2] : free(h)
            /\ ~free(r[1] - 1)
            /\ ~free(r[2] + 1)}

\* the first of the longest runs (a later run replaces the best only when it is
\* strictly longer), as the list of its hours
FirstLongestRun(R) ==
    IF R = {} THEN <<>>
    ELSE LET r == CHOOSE x \in R : \A y \in R :
                    \/ y[2] - y[1] < x[2] - x[1]
                    \/ (y[2] - y[1] = x[2] - x[1] /\ x[1] <= y[1])
         IN  [k \in 1..(r[2] - r[1] + 1) |-> r[1] + k - 1]

\* best_consecutive of one block scan
BestRun(u, b) == FirstLongestRun(FreeRuns(u, b))

\* the blocks of the user as <<date, index>>; their ascending order is the order of
\* available_blocks[u] sorted by start_datetime
BlockIndex(u) == UNION {{<<d, i>> : i \in 1..Len(DayBlocks(u, d))} : d \in BlockDays(u)}

\* the first block that can_fit the hours and holds a free run of that length;
\* the slice best_consecutive[:h] of its best run
SingleDayPick(u, h, t, best, duration_hours) ==
    LET fits == {e \in DOMAIN best : duration_hours[e] >= h /\ Len(best[e]) >= h}
    IN  IF fits = {} THEN <<>>
        ELSE LET e == CHOOSE x \in fits : \A y \in fits :
                        x[1] < y[1] \/ (x[1] = y[1] /\ x[2] <= y[2])
             IN  [k \in 1..Len(SliceTo(best[e], h)) |-> ScheduledSlot(t, u, e[1], best[e][k])]

\* _find_single_day_slots
FindSingleDaySlots(u, h, t) ==
    SingleDayPick(u, h, t,
                  [e \in BlockIndex(u) |-> BestRun(u, DayBlocks(u, e[1])[e[2]])],
                  [e \in BlockIndex(u) |-> DayBlocks(u, e[1])[e[2]].duration_hours])

\* faulty variant of FirstEntries: the hours collected are returned even when
\* fewer than h were found
FirstEntries_partial(u, h, t, free) ==
    LET first == FirstByKey(free, [e \in free |-> EntryKey(e)], h)
    IN  [k \in 1..Len(first) |-> ScheduledSlot(t, u, first[k][1], first[k][3])]

\* the first h entries in scan order, or nothing when fewer than h are free
FirstEntries(u, h, t, free) ==
    IF Cardinality(free) < h THEN <<>>
    ELSE LET first == FirstByKey(free, [e \in free |-> EntryKey(e)], h)
         IN  [k \in 1..Len(first) |-> ScheduledSlot(t, u, first[k][1], first[k][3])]

\* _find_multi_day_slots: walk the dates, the blocks of a date and the hours of a
\* block in order, appending every hour that is not occupied, until h are collected
FindMultiDaySlots(u, h, t) == FirstEntries(u, h, t, FreeEntries(u))

\* the first longest of the best runs of the blocks of one date
BestOfDay(runs) ==
    LET idx == {i \in 1..Len(runs) : runs[i] # <<>>}
    IN  IF idx = {} THEN <<>>
        ELSE runs[CHOOSE x \in idx : \A y \in idx :
                        \/ Len(runs[y]) < Len(runs[x])
                        \/ (Len(runs[y]) = Len(runs[x]) /\ x <= y)]

DayBestRuns(u, blocks) == [i \in 1..Len(blocks) |-> BestRun(u, blocks[i])]

\* _find_best_day_slots: the first longest free run over the blocks of one date
FindBestDaySlots(u, d) == BestOfDay(DayBestRuns(u, DayBlocks(u, d)))

\* the free entries of one date sorted by hour (an hour of two overlapping blocks
\* appears twice)
HourOrder(free) == SeqByKey(free, [e \in free |-> e[3] * 100 + e[2]])

\* the sorted hours up to the first gap of more than max_gap_hours
CutAtGap(sorted, max_gap_hours) ==
    LET gapAt == {k \in 2..Len(sorted) : sorted[k][3] - sorted[k - 1][3] - 1 > max_gap_hours}
        cut == IF gapAt = {} THEN Len(sorted)
               ELSE (CHOOSE k \in gapAt : \A j \in gapAt : k <= j) - 1
    IN  [k \in 1..cut |-> sorted[k][3]]

\* _find_flexible_day_slots
FindFlexibleDaySlots(u, d, max_gap_hours) ==
    CutAtGap(HourOrder(BlockFreeEntries(u, d, DayBlocks(u, d))), max_gap_hours)

\* the loop of _find_flexible_slots_improved over the dates: a date whose best run
\* holds h hours settles it; otherwise the flexible hours of the dates are collected
\* in date order until h are found
FlexiblePick(u, h, t, best, flex) ==
    LET whole == {d \in DOMAIN best : Len(best[d]) >= h}
        picked == UNION {{<<d, k>> : k \in 1..Len(flex[d])} : d \in DOMAIN flex}
    IN  IF whole # {}
        THEN LET d == CHOOSE x \in whole : \A y \in whole : x <= y
             IN  [k \in 1..h |-> ScheduledSlot(t, u, d, best[d][k])]
        ELSE IF Cardinality(picked) < h THEN <<>>
        ELSE LET first == FirstByKey(picked, [e \in picked |-> e[1] * 100 + e[2]], h)
             IN  [k \in 1..Len(first) |->
                     ScheduledSlot(t, u, first[k][1], flex[first[k][1]][first[k][2]])]

\* _find_flexible_slots_improved
FindFlexibleSlotsImproved(u, h, t) ==
    FlexiblePick(u, h, t,
                 [d \in BlockDays(u) |-> FindBestDaySlots(u, d)],
                 [d \in BlockDays(u) |-> FindFlexibleDaySlots(u, d, 2)])

\* the calendar week of a date. The code keys a week by (calendar year, ISO week
\* number); the model numbers the Monday-to-Sunday weeks from the current one, which
\* orders the weeks like the code wherever the horizon stays inside one year.  The
\* number of hours the strategy collects does not depend on the order of the weeks.
WeekOf(d) == (today_wd + d) \div 7

\* at most max_hours_per_week free hours of each week, in (date, hour) order, until
\* h are collected
DistributedPick(u, h, t, free) ==
    LET key == [e \in free |-> (e[1] * 100 + e[3]) * 100 + e[2]]
        taken == {e \in free :
                    Cardinality({o \in free : WeekOf(o[1]) = WeekOf(e[1]) /\ key[o] < key[e]}) < 8}
    IN  IF Cardinality(taken) < h THEN <<>>
        ELSE LET first == FirstByKey(taken, [e \in taken |-> key[e]], h)
             IN  [k \in 1..Len(first) |-> ScheduledSlot(t, u, first[k][1], first[k][3])]

\* _find_distributed_slots
FindDistributedSlots(u, h, t) == DistributedPick(u, h, t, FreeEntries(u))

\* the cascade of the four strategies: the later ones run only for long tasks
Cascade(h, s1, s2, s3, s4) ==
    IF s1 # <<>> THEN s1
    ELSE IF s2 # <<>> THEN s2
    ELSE IF h > 8 /\ s3 # <<>> THEN s3
    ELSE IF h > 16 /\ s4 # <<>> THEN s4
    ELSE <<>>

\* _find_consecutive_slots
FindConsecutiveSlots(u, hours_needed, t) ==
    Cascade(Ceil(hours_needed),
            FindSingleDaySlots(u, Ceil(hours_needed), t),
            FindMultiDaySlots(u, Ceil(hours_needed), t),
            FindFlexibleSlotsImproved(u, Ceil(hours_needed), t),
            FindDistributedSlots(u, Ceil(hours_needed), t))

\* _mark_slots_occupied
MarkSlotsOccupied(occ, u, slots) ==
    occ \cup {<<u, slots[k].date, slots[k].hour>> : k \in 1..Len(slots)}

\* _validate_no_overlaps: the number of slots whose (user, date, hour) was already
\* seen while scanning the schedule
ValidateNoOverlaps(sched) ==
    LET all == UNION {{<<t, k>> : k \in 1..Len(sched[t])} : t \in DOMAIN sched}
        keyOf(e) == <<sched[e[1]][e[2]].user_id, sched[e[1]][e[2]].date, sched[e[1]][e[2]].hour>>
        keys == {keyOf(e) : e \in all}
    IN  Cardinality(all) - Cardinality(keys)

----------------------------------------------------------------------------
(* CP interval scheduler (interval_model.py).  c is the IntervalSchedulingModel: *)
(* [mode, task_ids, current_horizon_days, factor, max_horizon_days].       *)

CpFirstDay == 0            \* _prepare_data: today = datetime.now().date()

\* the calendar rows of one (task_id, dayofweek) group, sorted by hour_from
CpGroupRows(t, dow) ==
    LET rows == {r \in calendar_slots : r.task_id = t /\ r.dayofweek = dow}
    IN  SeqByKey(rows, [r \in rows |-> r.hour_from * 25 + r.hour_to])

\* the scan of _calculate_contiguous_slots over the sorted rows of a group: a row
\* whose hour_from equals the current end extends the current interval, any other
\* row closes it and opens a new one
RECURSIVE MergeRows(_, _, _)
MergeRows(rows, k, current) ==
    IF k > Len(rows) THEN <<current>>
    ELSE IF rows[k].hour_from = current[2]
         THEN MergeRows(rows, k + 1, <<current[1], rows[k].hour_to>>)
         ELSE <<current>> \o MergeRows(rows, k + 1, <<rows[k].hour_from, rows[k].hour_to>>)

MergeGroup(rows) ==
    IF rows = <<>> THEN <<>>
    ELSE MergeRows(rows, 2, <<rows[1].hour_from, rows[1].hour_to>>)

\* the merged weekly intervals <<hour_from, hour_to>> of a group, in scan order
MergedIntervals(t, dow) == MergeGroup(CpGroupRows(t, dow))

\* _apply_leaves_to_slots: a leave of this very task covers date d
TaskLeaveConflict(t, d) ==
    \E l \in leaves : l.task_id = t /\ l.date_from <= d /\ d <= l.date_to

\* self.days of the CP model
CpDays(c) == CpFirstDay .. (CpFirstDay + c.current_horizon_days - 1)

\* the slots of one (task_id, dayofweek) group: every merged interval on every date
\* of the horizon with that weekday, less the dates _apply_leaves_to_slots removes.
\* ord is the position order of the list: groups by (task_id, dayofweek), then the
\* intervals of the group, then dates
SlotsOfGroup(c, t, dow, merged) ==
    UNION {{[task_id |-> t, user_id |-> tasks[t].user_id, date |-> d,
             hour_from |-> merged[i][1],
             hour_to |-> merged[i][2],
             duration_hours |-> merged[i][2] - merged[i][1],
             ord |-> <<t, dow, i, d>>] :
                d \in {x \in CpDays(c) : Weekday(x) = dow /\ ~TaskLeaveConflict(t, x)}} :
            i \in 1..Len(merged)}

\* the slots of one task
TaskSlots(c, t) == UNION {SlotsOfGroup(c, t, dow, MergedIntervals(t, dow)) : dow \in 0..6}

\* contiguous_slots after _apply_leaves_to_slots
ContiguousSlots(c) == UNION {TaskSlots(c, t) : t \in c.task_ids}

SlotKey(s) == ((s.ord[1] * 7 + s.ord[2]) * 10 + s.ord[3]) * 10000 + s.ord[4] + 1

\* every way to give the slots seq[k..] integer durations 0..int(duration_hours)
\* that sum to need; a distribution is the set of <<slot, duration>> with duration > 0
RECURSIVE Distributions(_, _, _)
Distributions(seq, k, need) ==
    IF k > Len(seq) THEN (IF need = 0 THEN {{}} ELSE {})
    ELSE UNION {{(IF n = 0 THEN {} ELSE {<<seq[k], n>>}) \cup rest :
                    rest \in Distributions(seq, k + 1, need - n)} :
                n \in 0..Min(need, seq[k].duration_hours)}

\* the durations the slots of a task may get: they sum to int(planned_hours).
\* A task without slots gets no constraint (and no variables).
DistributionsOf(mine, planned_hours) ==
    IF mine = {} THEN {{}}
    ELSE IF SumOver(mine, [s \in mine |-> s.duration_hours]) < planned_hours THEN {}
    ELSE Distributions(SeqByKey(mine, [s \in mine |-> SlotKey(s)]), 1, planned_hours)

\* _create_interval_constraints, duration part
TaskDistributions(c, t) == DistributionsOf(TaskSlots(c, t), IntTrunc(tasks[t].planned_hours))

\* _create_non_overlap_constraints: of the slots with one (user_id, start_datetime,
\* end_datetime) at most one is assigned
NonOverlapOk(used) ==
    \A a \in used : \A b \in used :
        (/\ a[1] # b[1]
         /\ a[1].user_id = b[1].user_id
         /\ a[1].date = b[1].date
         /\ a[1].hour_from = b[1].hour_from
         /\ a[1].hour_to = b[1].hour_to) => FALSE

\* the assignments that satisfy every constraint of the model, tasks taken in turn
RECURSIVE FeasibleFrom(_, _)
FeasibleFrom(c, todo) ==
    IF todo = {} THEN {{}}
    ELSE LET t == CHOOSE x \in todo : \A y \in todo : x <= y
         IN  {d \cup rest : d \in TaskDistributions(c, t),
                            rest \in FeasibleFrom(c, todo \ {t})}

SlotsHold(mine, planned_hours) ==
    \/ mine = {}
    \/ planned_hours >= 0 /\ SumOver(mine, [s \in mine |-> s.duration_hours]) >= planned_hours

\* the duration constraint of a task alone can be met: the task has no slot (no
\* constraint), or its slots hold int(planned_hours) hours
TaskFeasible(c, t) == SlotsHold(TaskSlots(c, t), IntTrunc(tasks[t].planned_hours))

FeasibleAssignments(c) ==
    IF \E t \in c.task_ids : ~TaskFeasible(c, t) THEN {}
    ELSE {a \in FeasibleFrom(c, c.task_ids) : NonOverlapOk(a)}

\* _extract_interval_solution: the hour entries of task t, slot after slot in list
\* order, each slot filled from its start hour
RECURSIVE HourEntries(_, _)
HourEntries(seq, k) ==
    IF k > Len(seq) THEN <<>>
    ELSE [h \in 1..seq[k][2] |-> [date |-> seq[k][1].date, hour |-> seq[k][1].hour_from + h - 1]]
            \o HourEntries(seq, k + 1)

ExtractTask(used, t) ==
    LET mine == {a \in used : a[1].task_id = t}
    IN  HourEntries(SeqByKey(mine, [a \in mine |-> SlotKey(a[1])]), 1)

ExtractIntervalSolution(c, used) ==
    LET ids == {a[1].task_id : a \in used}
    IN  [kind |-> "cp",
         tasks |-> [key \in {<<"int", t>> : t \in ids} |-> ExtractTask(used, key[2])],
         horizon_days |-> c.current_horizon_days]

\* faulty variant of ExtendPlanningHorizon: the horizon stays as it is
ExtendPlanningHorizon_same(current, factor) == current

\* _extend_planning_horizon: int(current * factor), at least 7 days more
ExtendPlanningHorizon(current, factor) ==
    LET new_horizon == (current * factor[1]) \div factor[2]
    IN  IF new_horizon - current < 7 THEN current + 7 ELSE new_horizon

----------------------------------------------------------------------------
(* Hybrid router and orchestrator (greedy_model.py should_use_greedy, model.py). *)

\* faulty variant of ShouldUseGreedy: the comparisons are not strict
ShouldUseGreedy_nonstrict(num_tasks, total_halves, num_users) ==
    \/ num_tasks >= 50
    \/ total_halves >= 2 * 1000
    \/ num_users >= 10
    \/ (num_tasks > 0 /\ total_halves >= 2 * 100 * num_tasks)

\* should_use_greedy, on len(tasks_df), sum of remaining_hours (in half hours) and
\* the number of distinct user_id
ShouldUseGreedy(num_tasks, total_halves, num_users) ==
    \/ num_tasks > 50
    \/ total_halves > 2 * 1000
    \/ num_users > 10
    \/ (num_tasks > 0 /\ total_halves > 2 * 100 * num_tasks)

TotalHalves == SumOver(TaskIds, [t \in TaskIds |-> tasks[t].remaining_hours])

UseGreedy == ShouldUseGreedy(Cardinality(TaskIds), TotalHalves, Cardinality(Users))

\* _convert_to_solution_format: keys are str(int(task_id)), entries {date, hour}
\* the task map of _convert_to_solution_format: str(int(task_id)) -> [{date, hour}]
GreedyTaskMap(sched) ==
    [key \in {<<"str", t>> : t \in DOMAIN sched} |->
        [k \in 1..Len(sched[key[2]]) |->
            [date |-> sched[key[2]][k].date, hour |-> sched[key[2]][k].hour]]]

ConvertToSolutionFormat(sched, horizon) ==
    [kind |-> "greedy", tasks |-> GreedyTaskMap(sched), horizon_days |-> horizon]

\* SchedulingModel.solve: set(all ids) - set(solution['tasks'].keys())
UnscheduledTasks(sol) == {<<"int", t>> : t \in TaskIds} \ DOMAIN sol.tasks

\* dict.update of the task map
UpdateTasks(old, new) ==
    [key \in DOMAIN old \cup DOMAIN new |-> IF key \in DOMAIN new THEN new[key] ELSE old[key]]

\* get_solution_dataframe: None without a solution; else one row per slot of every
\* key (the key as int), sorted by date, hour and task_id; no row: an empty DataFrame
NoDataframe == [kind |-> "None"]

GetSolutionDataframe(sol) ==
    IF sol = NoSolution THEN NoDataframe
    ELSE LET entries == UNION {{<<key, k>> : k \in 1..Len(sol.tasks[key])} : key \in DOMAIN sol.tasks}
             sortKey == [e \in entries |->
                            ((sol.tasks[e[1]][e[2]].date * 24 + sol.tasks[e[1]][e[2]].hour)
                                * (Cardinality(TaskIds) + 1)) + e[1][2]]
             ordered == SeqByKey(entries, sortKey)
         IN  [kind |-> "DataFrame",
              rows |-> [k \in 1..Len(ordered) |->
                          [task_id |-> ordered[k][1][2],
                           user_id |-> tasks[ordered[k][1][2]].user_id,
                           date |-> sol.tasks[ordered[k][1]][ordered[k][2]].date,
                           hour |-> sol.tasks[ordered[k][1]][ordered[k][2]].hour]]]

PlannedColumnMissing(c) == \E t \in c.task_ids : tasks[t].planned_hours = NoColumn

----------------------------------------------------------------------------
(* Explored inputs.                                                        *)

DefaultConfig ==
    [greedy_threshold_tasks |-> 50, greedy_threshold_hours |-> 1000,
     greedy_threshold_users |-> 10, greedy_threshold_avg_hours |-> 100,
     max_horizon_days |-> 3650]

Row(t, dow, hf, ht) == [task_id |-> t, dayofweek |-> dow, hour_from |-> hf, hour_to |-> ht]
Leave(t, from, to) == [task_id |-> t, date_from |-> from, date_to |-> to]
Task(u, rem, planned, prio) ==
    [user_id |-> u, remaining_hours |-> rem, planned_hours |-> planned,
     priority_score |-> prio, hierarchy_level |-> 0, is_leaf_task |-> TRUE]

\* weekly rows (dayofweek, hour_from, hour_to) a task may carry
RowA == <<0, 9, 11>>
RowB == <<0, 10, 12>>
RowC == <<0, 11, 12>>
RowL == <<0, 22, 24>>
Cal1Choices == {{}, {RowA}, {RowA, RowB}, {RowA, RowC}, {RowL}}
Cal2Choices == {{}, {RowA}, {RowB}}
LeaveChoices == {{}, {Leave(1, 0, 7)}, {Leave(1, 8, FarDay)}}
TodayChoices == {0, 6}

FillerIds(n) == 3..(2 + n)

\* Two tasks of interest (1 and 2); n filler users with one 2-hour task each, a
\* Monday 9-11 calendar and a leave from the day after tomorrow on; with heavy, one
\* more user whose single task of HeavyHalves half hours has no calendar.
ScenarioTasks(rem1, user2, n, heavy, withPlanned) ==
    [t \in 1..(2 + n + (IF heavy THEN 1 ELSE 0)) |->
        IF t = 1 THEN Task(1, rem1, IF withPlanned THEN rem1 ELSE NoColumn, 2)
        ELSE IF t = 2 THEN Task(user2, 2, IF withPlanned THEN 2 ELSE NoColumn, 1)
        ELSE IF t \in FillerIds(n) THEN Task(100 + t, 4, IF withPlanned THEN 4 ELSE NoColumn, 1)
        ELSE Task(100 + t, HeavyHalves, IF withPlanned THEN HeavyHalves ELSE NoColumn, 1)]

ScenarioCalendar(cal1, cal2, n) ==
    {Row(1, c[1], c[2], c[3]) : c \in cal1} \cup {Row(2, c[1], c[2], c[3]) : c \in cal2}
        \cup {Row(t, 0, 9, 11) : t \in FillerIds(n)}

ScenarioLeaves(lv, n) == lv \cup {Leave(t, 2, FarDay) : t \in FillerIds(n)}

\* a run with initial_horizon_days = ih
ScenarioFrom(rem1, user2, n, heavy, withPlanned, cal1, cal2, lv, wd, mh, ih) ==
    /\ tasks = ScenarioTasks(rem1, user2, n, heavy, withPlanned)
    /\ calendar_slots = ScenarioCalendar(cal1, cal2, n)
    /\ leaves = ScenarioLeaves(lv, n)
    /\ today_wd = wd
    /\ config = [DefaultConfig EXCEPT !.max_horizon_days = mh]
    /\ initial_horizon_days = ih

Scenario(rem1, user2, n, heavy, withPlanned, cal1, cal2, lv, wd, mh) ==
    ScenarioFrom(rem1, user2, n, heavy, withPlanned, cal1, cal2, lv, wd, mh, 7)

\* instances at the router thresholds: <<tasks, users, remaining_hours in half hours>>
BulkProfiles ==
    {<<50, 1, 2>>, <<51, 1, 2>>, <<11, 1, 181>>, <<11, 1, 182>>,
     <<1, 1, 200>>, <<1, 1, 201>>, <<10, 10, 2>>, <<11, 11, 2>>}

BulkTasks(p) == [t \in 1..p[1] |-> Task(t % p[2], p[3], p[3], 1)]

\* more than 10 users, one of them with a 4-hour task and two 1-hour tasks; only the
\* first task has a calendar row
CrowdTasks ==
    [t \in 1..(NumFillers + 4) |->
        IF t = 1 THEN Task(1, 8, 8, 2)
        ELSE IF t \in {2, 3} THEN Task(1, 2, 2, 1)
        ELSE Task(100 + t, 4, 4, 1)]

\* three tasks of one user with descending priorities (1 h, 2 h, 1 h) that share the
\* calendar row of the first, and a task without calendar that selects greedy
PriorityTasks ==
    [t \in 1..4 |->
        IF t = 1 THEN Task(1, 2, 2, 3)
        ELSE IF t = 2 THEN Task(1, 4, 4, 2)
        ELSE IF t = 3 THEN Task(1, 2, 2, 1)
        ELSE Task(104, HeavyHalves, HeavyHalves, 1)]

InitInputs ==
    \* few tasks and users: the router picks the CP model
    \/ \E rem1 \in {1, 3, 5}, user2 \in {1, 2}, cal1 \in Cal1Choices, cal2 \in Cal2Choices,
          lv \in LeaveChoices, wd \in TodayChoices, mh \in {20, 3650} :
        Scenario(rem1, user2, 0, FALSE, TRUE, cal1, cal2, lv, wd, mh)
    \* a heavy task lifts the average hours over the threshold: greedy, then residual
    \/ \E rem1 \in {1, 3, 5}, user2 \in {1, 2}, cal1 \in Cal1Choices, cal2 \in Cal2Choices,
          lv \in LeaveChoices, wd \in TodayChoices, mh \in {20, 200} :
        Scenario(rem1, user2, 0, TRUE, TRUE, cal1, cal2, lv, wd, mh)
    \* the same with a 17-hour task, which no single week of its calendar holds
    \/ \E user2 \in {1, 2}, cal1 \in {{RowA}, {RowL}}, cal2 \in Cal2Choices,
          lv \in LeaveChoices, wd \in TodayChoices, mh \in {20, 200} :
        Scenario(34, user2, 0, TRUE, TRUE, cal1, cal2, lv, wd, mh)
    \* more than 10 users: greedy, then residual
    \/ \E rem1 \in {3, 5}, cal1 \in {{RowA}, {RowA, RowB}}, wd \in TodayChoices, mh \in {20, 3650} :
        Scenario(rem1, 2, NumFillers, FALSE, TRUE, cal1, {RowA}, {}, wd, mh)
    \* more than 10 users and a 17-hour task that only a long horizon holds
    \/ \E wd \in TodayChoices, mh \in {20, 3650}, ih \in {7, 14} :
        ScenarioFrom(34, 2, NumFillers, FALSE, TRUE, {RowA}, {RowA}, {}, wd, mh, ih)
    \* a task with negative remaining_hours (-1 hour), on either route
    \/ \E user2 \in {1, 2}, heavy \in BOOLEAN, cal1 \in {{RowA}, {RowA, RowB}},
          wd \in TodayChoices :
        Scenario(-2, user2, 0, heavy, TRUE, cal1, {RowA}, {}, wd, 20)
    \* tasks of one user that compete for the hours a short horizon holds
    \/ \E wd \in TodayChoices, mh \in {20, 3650} :
        /\ tasks = CrowdTasks
        /\ calendar_slots = {Row(1, 0, 9, 11)}
        /\ leaves = {}
        /\ today_wd = wd
        /\ config = [DefaultConfig EXCEPT !.max_horizon_days = mh]
        /\ initial_horizon_days = 7
    \* tasks of one user with descending priorities and different lengths
    \/ \E wd \in TodayChoices :
        /\ tasks = PriorityTasks
        /\ calendar_slots = {Row(1, 0, 9, 11)}
        /\ leaves = {}
        /\ today_wd = wd
        /\ config = [DefaultConfig EXCEPT !.max_horizon_days = 20]
        /\ initial_horizon_days = 7
    \* more than 20 tasks: greedy without residual
    \/ \E user2 \in {1, 2}, cal2 \in {{RowA}, {RowB}}, wd \in TodayChoices :
        Scenario(5, user2, ManyFillers, FALSE, TRUE, {RowA, RowB}, cal2, {}, wd, 3650)
    \* tasks_df without a planned_hours column
    \/ \E user2 \in {1, 2}, heavy \in BOOLEAN, wd \in TodayChoices :
        Scenario(3, user2, 0, heavy, FALSE, {RowA}, {RowA}, {}, wd, 3650)
    \* instances at the router thresholds, under two configured task thresholds
    \/ \E p \in BulkProfiles, th \in {2, 50} :
        /\ tasks = BulkTasks(p)
        /\ calendar_slots = {}
        /\ leaves = {}
        /\ today_wd = 0
        /\ config = [DefaultConfig EXCEPT !.greedy_threshold_tasks = th]
        /\ initial_horizon_days = 7

\* the ids 1..n in ascending order and in descending order
Ascending(n) == [k \in 1..n |-> k]
Descending(n) == [k \in 1..n |-> n + 1 - k]

\* the orders of the input rows explored: both for the larger task sets
RowOrders ==
    IF Cardinality(TaskIds) > 3
    THEN {Ascending(Cardinality(TaskIds)), Descending(Cardinality(TaskIds))}
    ELSE {Ascending(Cardinality(TaskIds))}

\* the state after SchedulingModel.__init__
Init ==
    /\ InitInputs
    /\ row_order \in RowOrders
    /\ algorithm_used = IF UseGreedy THEN "greedy" ELSE "ortools"
    /\ sorted_tasks = IF UseGreedy THEN SortedTasks ELSE <<>>
    /\ pc = IF UseGreedy THEN "greedy_pass" ELSE "cp_build"
    /\ horizon_days = IF UseGreedy
                      THEN OptimalHorizon(initial_horizon_days, config.max_horizon_days)
                      ELSE 0
    /\ extension_attempts = 0
    /\ extension_log = <<>>
    /\ occupied_slots = {}
    /\ schedule = <<>>
    /\ task_idx = 1
    /\ greedy_stats = [tasks_scheduled |-> 0, overlaps_detected |-> 0, horizon_extensions |-> 0]
    /\ cp = IF UseGreedy THEN NoCp
            ELSE [mode |-> "direct", task_ids |-> TaskIds,
                  current_horizon_days |-> initial_horizon_days,
                  factor |-> <<5, 4>>, max_horizon_days |-> config.max_horizon_days]
    /\ solution = NoSolution
    /\ result = "none"
    /\ first_run = NoRun
    /\ cp_model = {}
    /\ ApiIdle

----------------------------------------------------------------------------
(* GreedySchedulingModel.solve, one action per loop step.                  *)

NumTasks == Cardinality(TaskIds)

\* success_rate >= 0.8 for the schedule of the pass
RateReached(sched) == 10 * Cardinality(DOMAIN sched) >= 8 * NumTasks

\* the statistics and the return of GreedySchedulingModel.solve after the loop
GreedyReturn(sched, attempts) ==
    /\ greedy_stats' = [tasks_scheduled |-> Cardinality(DOMAIN sched),
                        overlaps_detected |-> ValidateNoOverlaps(sched),
                        horizon_extensions |-> attempts]
    /\ pc' = "after_greedy"

\* the body of the loop of _greedy_algorithm for one task and what was found for it
\* faulty variant of RecordSlots: a task without slots discards the pass so far
RecordSlots_reset(t, u, assigned_slots) ==
    IF assigned_slots # <<>>
    THEN /\ schedule' = (t :> assigned_slots) @@ schedule
         /\ occupied_slots' = MarkSlotsOccupied(occupied_slots, u, assigned_slots)
    ELSE /\ schedule' = <<>>
         /\ occupied_slots' = {}

RecordSlots(t, u, assigned_slots) ==
    IF assigned_slots # <<>>
    THEN /\ schedule' = (t :> assigned_slots) @@ schedule
         /\ occupied_slots' = MarkSlotsOccupied(occupied_slots, u, assigned_slots)
    ELSE UNCHANGED <<schedule, occupied_slots>>

\* one iteration of the loop of _greedy_algorithm
GreedyPlaceTask ==
    /\ pc = "greedy_pass"
    /\ task_idx <= Len(sorted_tasks)
    /\ RecordSlots(sorted_tasks[task_idx], tasks[sorted_tasks[task_idx]].user_id,
                   FindConsecutiveSlots(tasks[sorted_tasks[task_idx]].user_id,
                                        tasks[sorted_tasks[task_idx]].remaining_hours,
                                        sorted_tasks[task_idx]))
    /\ task_idx' = task_idx + 1
    /\ UNCHANGED <<api, inputs, first_run, cp_model, extension_log, algorithm_used, pc, horizon_days, extension_attempts,
                   greedy_stats, cp, solution, result>>

\* the pass is over and the loop breaks: success rate reached, or horizon at its cap
GreedyBreak ==
    /\ pc = "greedy_pass"
    /\ task_idx > Len(sorted_tasks)
    /\ RateReached(schedule) \/ horizon_days >= config.max_horizon_days
    /\ GreedyReturn(schedule, extension_attempts)
    /\ UNCHANGED <<api, inputs, first_run, cp_model, extension_log, algorithm_used, horizon_days, extension_attempts, occupied_slots,
                   schedule, task_idx, cp, solution, result>>

\* faulty variant of FreshLedger: the hours occupied so far are kept
FreshLedger_stale == occupied_slots

\* _generate_available_blocks: self.occupied_slots = {}, an empty set for every date
FreshLedger == {}

\* the horizon after an extension: min(int(horizon_days * 2), max_allowed_days)
ExtendedHorizon(days, max_allowed_days) == Min(days * 2, max_allowed_days)

\* the pass is over and the horizon is extended: blocks and ledger are rebuilt; the
\* loop runs another pass only while extension_attempts < 5
GreedyExtend ==
    /\ pc = "greedy_pass"
    /\ task_idx > Len(sorted_tasks)
    /\ ~RateReached(schedule)
    /\ horizon_days < config.max_horizon_days
    /\ horizon_days' = ExtendedHorizon(horizon_days, config.max_horizon_days)
    /\ extension_attempts' = extension_attempts + 1
    /\ extension_log' = Append(extension_log,
                               [old_horizon |-> horizon_days,
                                new_horizon |-> ExtendedHorizon(horizon_days,
                                                                config.max_horizon_days),
                                scheduled |-> Cardinality(DOMAIN schedule)])
    /\ occupied_slots' = FreshLedger
    /\ IF extension_attempts + 1 < 5
       THEN /\ schedule' = <<>>
            /\ task_idx' = 1
            /\ UNCHANGED <<pc, greedy_stats>>
       ELSE /\ GreedyReturn(schedule, extension_attempts + 1)
            /\ UNCHANGED <<schedule, task_idx>>
    /\ UNCHANGED <<api, inputs, first_run, cp_model, algorithm_used, cp, solution, result>>

\* json.dump(solution, f, default=str) of the task map: one member per key of the
\* dict, in insertion order; an int key is written as its decimal string, so the
\* member name is the id either way; the members of the CP model were inserted after
\* those of the greedy model (dict.update); dates are strings and hours ints already
JsonDump(task_map) ==
    {[name |-> key[2], value |-> task_map[key], late |-> key[1] = "int"] : key \in DOMAIN task_map}

\* json.load: every name becomes a str key; of two members of one name the later wins
JsonLoad(members) ==
    [key \in {<<"str", m.name>> : m \in members} |->
        LET same == {m \in members : m.name = key[2]}
        IN  (CHOOSE m \in same : \A o \in same : o.late => m.late).value]

\* what a greedy solve returned: the task map, the horizon, the extensions made
GreedyOutcome ==
    [kind |-> "greedy", tasks |-> GreedyTaskMap(schedule), horizon_days |-> horizon_days,
     horizon_extensions |-> greedy_stats.horizon_extensions]

\* the caller builds a second GreedySchedulingModel over the same inputs and solves
\* it: the state of the greedy model is the one its constructor leaves
GreedyRunAgain ==
    /\ pc = "after_greedy"
    /\ first_run = NoRun
    /\ first_run' = GreedyOutcome
    /\ horizon_days' = OptimalHorizon(initial_horizon_days, config.max_horizon_days)
    /\ extension_attempts' = 0
    /\ extension_log' = <<>>
    /\ occupied_slots' = FreshLedger
    /\ schedule' = <<>>
    /\ task_idx' = 1
    /\ greedy_stats' = [tasks_scheduled |-> 0, overlaps_detected |-> 0, horizon_extensions |-> 0]
    /\ pc' = "greedy_pass"
    /\ UNCHANGED <<api, inputs, algorithm_used, cp, cp_model, solution, result>>

----------------------------------------------------------------------------
(* SchedulingModel.solve after the greedy solve returned.                  *)

GreedySucceeded == Cardinality(DOMAIN schedule) > 0

GreedySolution == ConvertToSolutionFormat(schedule, horizon_days)

RunsResidual ==
    /\ UnscheduledTasks(GreedySolution) # {}
    /\ Cardinality(UnscheduledTasks(GreedySolution)) <= 20

\* greedy succeeded and no residual pass is made
AcceptGreedy ==
    /\ pc = "after_greedy"
    /\ first_run = NoRun
    /\ GreedySucceeded
    /\ ~RunsResidual
    /\ solution' = GreedySolution
    /\ result' = "True"
    /\ pc' = "done"
    /\ UNCHANGED <<api, inputs, first_run, cp_model, extension_log, algorithm_used, horizon_days, extension_attempts, occupied_slots,
                   schedule, task_idx, greedy_stats, cp>>

\* greedy succeeded: _solve_residual_with_ortools builds the CP model of the residual tasks
StartResidual ==
    /\ pc = "after_greedy"
    /\ first_run = NoRun
    /\ GreedySucceeded
    /\ RunsResidual
    /\ solution' = GreedySolution
    /\ cp' = [mode |-> "residual",
              task_ids |-> {k[2] : k \in UnscheduledTasks(GreedySolution)},
              current_horizon_days |-> 14, factor |-> <<3, 2>>, max_horizon_days |-> 60]
    /\ pc' = "cp_build"
    /\ UNCHANGED <<api, inputs, first_run, cp_model, extension_log, algorithm_used, horizon_days, extension_attempts, occupied_slots,
                   schedule, task_idx, greedy_stats, result>>

\* greedy scheduled nothing: _fallback_to_ortools replaces model_impl by a new
\* IntervalSchedulingModel and configures model_impl.solver, which is still None:
\* the AttributeError is caught and the fallback returns False
FallbackToOrtools ==
    /\ pc = "after_greedy"
    /\ first_run = NoRun
    /\ ~GreedySucceeded
    /\ cp' = [mode |-> "fallback", task_ids |-> TaskIds,
              current_horizon_days |-> 14, factor |-> <<5, 4>>, max_horizon_days |-> 90]
    /\ result' = "False"
    /\ pc' = "done"
    /\ UNCHANGED <<api, inputs, first_run, cp_model, extension_log, algorithm_used, horizon_days, extension_attempts, occupied_slots,
                   schedule, task_idx, greedy_stats, solution>>

----------------------------------------------------------------------------
(* IntervalSchedulingModel.solve, one action per loop step.                *)

\* faulty variant of CpReturn: a residual pass without a solution fails the solve
CpReturn_fatal(found, cpSolution) ==
    /\ pc' = "done"
    /\ result' = IF found THEN "True" ELSE "False"
    /\ solution' = IF ~found THEN NoSolution
                   ELSE IF cp.mode = "residual"
                   THEN [solution EXCEPT !.tasks = UpdateTasks(solution.tasks, cpSolution.tasks)]
                   ELSE cpSolution

\* faulty variant of CpReturn: a residual pass without a solution makes solve()
\* return False while the greedy solution stays in place
CpReturn_failing(found, cpSolution) ==
    /\ pc' = "done"
    /\ result' = IF found THEN "True" ELSE "False"
    /\ solution' = IF ~found THEN solution
                   ELSE IF cp.mode = "residual"
                   THEN [solution EXCEPT !.tasks = UpdateTasks(solution.tasks, cpSolution.tasks)]
                   ELSE cpSolution

\* what SchedulingModel.solve does with the return of the CP solve
CpReturn(found, cpSolution) ==
    /\ pc' = "done"
    /\ IF cp.mode = "residual"
       THEN /\ result' = "True"
            /\ solution' = IF found
                           THEN [solution EXCEPT !.tasks = UpdateTasks(solution.tasks, cpSolution.tasks)]
                           ELSE solution
       ELSE /\ result' = IF found THEN "True" ELSE "False"
            /\ solution' = IF found THEN cpSolution ELSE solution

\* build_model: the variables and constraints over the slots of the current horizon,
\* held as the solutions _extract_interval_solution can read from an assignment that
\* satisfies them; a model over a horizon beyond max_horizon_days is built by the
\* last extension and never solved
BuiltModel(c) ==
    IF c.current_horizon_days > c.max_horizon_days THEN {}
    ELSE {ExtractIntervalSolution(c, used) : used \in FeasibleAssignments(c)}

\* build_model succeeds
CpBuildModel ==
    /\ pc = "cp_build"
    /\ ~PlannedColumnMissing(cp)
    /\ pc' = "cp_loop"
    /\ cp_model' = BuiltModel(cp)
    /\ UNCHANGED <<api, inputs, first_run, extension_log, algorithm_used, horizon_days, extension_attempts, occupied_slots,
                   schedule, task_idx, greedy_stats, cp, solution, result>>

\* build_model raises KeyError('planned_hours'): caught by the residual pass, not
\* caught on the direct path
CpBuildRaises ==
    /\ pc = "cp_build"
    /\ PlannedColumnMissing(cp)
    /\ pc' = "done"
    /\ result' = IF cp.mode = "residual" THEN "True" ELSE "raised"
    /\ UNCHANGED <<api, inputs, first_run, cp_model, extension_log, algorithm_used, horizon_days, extension_attempts, occupied_slots,
                   schedule, task_idx, greedy_stats, cp, solution>>

\* the solver answers OPTIMAL or FEASIBLE with some assignment that satisfies the
\* constraints; the solution is extracted and solve returns True
CpSolved ==
    /\ pc = "cp_loop"
    /\ cp.current_horizon_days <= cp.max_horizon_days
    /\ \E cpSolution \in cp_model : CpReturn(TRUE, cpSolution)
    /\ UNCHANGED <<api, inputs, first_run, cp_model, extension_log, algorithm_used, horizon_days, extension_attempts, occupied_slots,
                   schedule, task_idx, greedy_stats, cp>>

\* the solver answers INFEASIBLE: the horizon is extended and the model rebuilt
CpExtend ==
    /\ pc = "cp_loop"
    /\ cp.current_horizon_days <= cp.max_horizon_days
    /\ cp_model = {}
    /\ cp' = [cp EXCEPT !.current_horizon_days =
                  ExtendPlanningHorizon(cp.current_horizon_days, cp.factor)]
    /\ cp_model' = BuiltModel([cp EXCEPT !.current_horizon_days =
                                  ExtendPlanningHorizon(cp.current_horizon_days, cp.factor)])
    /\ UNCHANGED <<api, inputs, first_run, extension_log, algorithm_used, pc, horizon_days, extension_attempts,
                   occupied_slots, schedule, task_idx, greedy_stats, solution, result>>

\* the horizon passed max_horizon_days: solve returns False
CpGiveUp ==
    /\ pc = "cp_loop"
    /\ cp.current_horizon_days > cp.max_horizon_days
    /\ CpReturn(FALSE, NoSolution)
    /\ UNCHANGED <<api, inputs, first_run, cp_model, extension_log, algorithm_used, horizon_days, extension_attempts, occupied_slots,
                   schedule, task_idx, greedy_stats, cp>>

----------------------------------------------------------------------------
(* get_solver_statistics, read after solve() returned.                     *)

\* GreedySchedulingModel.get_solver_statistics: 'OPTIMAL' if success_rate > 0.8
GreedyStatus(tasks_scheduled, tasks_total) ==
    IF 10 * tasks_scheduled > 8 * tasks_total THEN "OPTIMAL" ELSE "FEASIBLE"

\* the values stats['status'] can have in SchedulingModel.get_solver_statistics: the
\* status of the greedy model, or the StatusName() of the last CP solve; no status at
\* all when model_impl is the CP model of the fallback, whose solver is None
SolverStatuses ==
    IF cp.mode = "fallback" THEN {}
    ELSE IF algorithm_used = "greedy"
    THEN {GreedyStatus(greedy_stats.tasks_scheduled, NumTasks)}
    ELSE IF result = "True" THEN {"OPTIMAL", "FEASIBLE"}
    ELSE IF result = "False" THEN {"INFEASIBLE", "UNKNOWN"}
    ELSE {"UNKNOWN"}

\* stats['tasks_scheduled'] of SchedulingModel.get_solver_statistics: the number of
\* keys of the task map when there is a solution
StatsTasksScheduled ==
    IF solution # NoSolution THEN Cardinality(DOMAIN solution.tasks)
    ELSE greedy_stats.tasks_scheduled

\* stats['tasks_total']
StatsTasksTotal == NumTasks

Next ==
    \/ GreedyPlaceTask
    \/ GreedyBreak
    \/ GreedyExtend
    \/ GreedyRunAgain
    \/ AcceptGreedy
    \/ StartResidual
    \/ FallbackToOrtools
    \/ CpBuildModel
    \/ CpBuildRaises
    \/ CpSolved
    \/ CpExtend
    \/ CpGiveUp

Spec == Init /\ [][Next]_vars

\* a step of the loop of IntervalSchedulingModel.solve: a return, or an extension of
\* the horizon after which the rebuilt model is still without solution (an extension
\* that makes the model solvable is followed by the return of CpSolved)
CpLoopStep ==
    \/ CpSolved
    \/ CpGiveUp
    \/ /\ pc = "cp_loop"
       /\ cp.current_horizon_days <= cp.max_horizon_days
       /\ cp_model = {}
       /\ cp' = [cp EXCEPT !.current_horizon_days =
                     ExtendPlanningHorizon(cp.current_horizon_days, cp.factor)]
       /\ UNCHANGED <<api, inputs, first_run, cp_model, extension_log, algorithm_used, pc, horizon_days,
                      extension_attempts, occupied_slots, schedule, task_idx, greedy_stats,
                      solution, result>>

\* IntervalSchedulingModel.solve runs in one thread from its call to its return: a
\* step of its loop that can be taken is taken
LiveSpec == Spec /\ WF_vars(CpLoopStep)

----------------------------------------------------------------------------
(* ScheduleResource.post and _run_scheduler (api.py), one action per read  *)
(* or write of scheduler_status: Flask serves each request in a thread of  *)
(* its own and the job runs in a further thread.                           *)

\* post, lines 111-156: the status check, then the validation of the body
PostCheck(r, body) ==
    /\ post[r].pc = "new"
    /\ post' = [post EXCEPT ![r] =
                   IF scheduler_status.status = "running"
                   THEN [pc |-> "done", body |-> body, response |-> 409]
                   ELSE IF body = "no_tasks"
                   THEN [pc |-> "done", body |-> body, response |-> 400]
                   ELSE [pc |-> "set_status", body |-> body, response |-> 0]]
    /\ UNCHANGED <<solver, scheduler_status, thread, get_response>>

\* post, line 159
PostSetRunning(r) ==
    /\ post[r].pc = "set_status"
    /\ scheduler_status' = [scheduler_status EXCEPT !.status = "running"]
    /\ post' = [post EXCEPT ![r].pc = "set_end_time"]
    /\ UNCHANGED <<solver, thread, get_response>>

\* post, line 162
PostClearEndTime(r) ==
    /\ post[r].pc = "set_end_time"
    /\ scheduler_status' = [scheduler_status EXCEPT !.end_time = NoneValue]
    /\ post' = [post EXCEPT ![r].pc = "set_path"]
    /\ UNCHANGED <<solver, thread, get_response>>

\* post, line 163
PostClearResultPath(r) ==
    /\ post[r].pc = "set_path"
    /\ scheduler_status' = [scheduler_status EXCEPT !.last_result_path = NoneValue]
    /\ post' = [post EXCEPT ![r].pc = "start_thread"]
    /\ UNCHANGED <<solver, thread, get_response>>

\* post, lines 166-182: the thread is started and the request answered 202
PostStartThread(r) ==
    /\ post[r].pc = "start_thread"
    /\ thread' = [thread EXCEPT ![r].pc = "started"]
    /\ post' = [post EXCEPT ![r].pc = "done", ![r].response = 202]
    /\ UNCHANGED <<solver, scheduler_status, get_response>>

\* _run_scheduler, lines 194-223 and 240-248: the conversion of the body and
\* model.solve(), up to the branch that writes the status
RunSolve(r, outcome) ==
    /\ thread[r].pc = "started"
    /\ thread' = [thread EXCEPT ![r] =
                     [pc |-> "set_status",
                      outcome |-> IF post[r].body = "bad_types" THEN "empty"
                                  ELSE outcome]]
    /\ UNCHANGED <<solver, scheduler_status, post, get_response>>

\* _run_scheduler, lines 203, 236, 243, 250
RunSetStatus(r) ==
    /\ thread[r].pc = "set_status"
    /\ scheduler_status' = [scheduler_status EXCEPT !.status =
                               IF thread[r].outcome = "True" THEN "completed" ELSE "error"]
    /\ thread' = [thread EXCEPT ![r].pc = "set_end_time"]
    /\ UNCHANGED <<solver, post, get_response>>

\* _run_scheduler, lines 205, 238, 245, 252
RunSetEndTime(r) ==
    /\ thread[r].pc = "set_end_time"
    /\ scheduler_status' = [scheduler_status EXCEPT !.end_time = "time"]
    /\ thread' = [thread EXCEPT ![r].pc =
                     IF thread[r].outcome = "True" THEN "set_path" ELSE "finished"]
    /\ UNCHANGED <<solver, post, get_response>>

\* _run_scheduler, line 239
RunSetResultPath(r) ==
    /\ thread[r].pc = "set_path"
    /\ scheduler_status' = [scheduler_status EXCEPT !.last_result_path = "output_file"]
    /\ thread' = [thread EXCEPT ![r].pc = "finished"]
    /\ UNCHANGED <<solver, post, get_response>>

\* ScheduleResultResource.get, lines 394-413
GetResult ==
    /\ get_response' = IF \/ scheduler_status.status # "completed"
                          \/ scheduler_status.last_result_path = NoneValue
                       THEN 404 ELSE 200
    /\ UNCHANGED <<solver, scheduler_status, post, thread>>

\* the service with no job received; the SchedulingModel of a job is not followed
ApiInit ==
    /\ Init
    /\ tasks = PriorityTasks
    /\ today_wd = 0

ApiNext ==
    \/ \E r \in Requests, body \in Bodies : PostCheck(r, body)
    \/ \E r \in Requests : PostSetRunning(r)
    \/ \E r \in Requests : PostClearEndTime(r)
    \/ \E r \in Requests : PostClearResultPath(r)
    \/ \E r \in Requests : PostStartThread(r)
    \/ \E r \in Requests, outcome \in SolveOutcomes : RunSolve(r, outcome)
    \/ \E r \in Requests : RunSetStatus(r)
    \/ \E r \in Requests : RunSetEndTime(r)
    \/ \E r \in Requests : RunSetResultPath(r)
    \/ GetResult

ApiSpec == ApiInit /\ [][ApiNext]_vars

----------------------------------------------------------------------------
(* Properties.                                                             *)

\* the entries of a task map as <<key, position>>
EntriesOf(map) == UNION {{<<key, k>> : k \in 1..Len(map[key])} : key \in DOMAIN map}

SolutionEntries == IF solution = NoSolution THEN {} ELSE EntriesOf(solution.tasks)
GreedyEntries == {e \in SolutionEntries : e[1][1] = "str"}
CpEntries == {e \in SolutionEntries : e[1][1] = "int"}

EntryTask(e) == e[1][2]
EntryUser(e) == tasks[e[1][2]].user_id
EntryDate(e) == solution.tasks[e[1]][e[2]].date
EntryHour(e) == solution.tasks[e[1]][e[2]].hour

SameUserHour(a, b) ==
    /\ EntryUser(a) = EntryUser(b)
    /\ EntryDate(a) = EntryDate(b)
    /\ EntryHour(a) = EntryHour(b)

\* the slots of the schedule of the greedy pass as <<task, position>>
ScheduleEntries == EntriesOf(schedule)

SameScheduledHour(a, b) ==
    /\ schedule[a[1]][a[2]].user_id = schedule[b[1]][b[2]].user_id
    /\ schedule[a[1]][a[2]].date = schedule[b[1]][b[2]].date
    /\ schedule[a[1]][a[2]].hour = schedule[b[1]][b[2]].hour

\* C1: when the greedy solve has returned, no two emitted slots of one user share a
\* (date, hour), whether of two tasks or of one task, and stats['overlaps_detected']
\* is 0.  Fails: _find_multi_day_slots appends an hour once per block that holds it.
C1_GreedyNoDoubleBooking ==
    pc = "after_greedy" =>
        /\ \A a \in ScheduleEntries : \A b \in ScheduleEntries :
              a # b => ~SameScheduledHour(a, b)
        /\ greedy_stats.overlaps_detected = 0

\* C2: after the residual CP assignments are merged into the greedy solution, no hour
\* the CP pass gives to a task is an hour greedy committed for the same user.  Fails:
\* the CP model of the residual pass is built without the greedy ledger.
C2_ResidualAvoidsGreedyHours ==
    (pc = "done" /\ cp.mode = "residual") =>
        \A a \in CpEntries : \A b \in GreedyEntries : ~SameUserHour(a, b)

\* C3: in a solution extracted by the CP scheduler two different tasks of one user
\* never share a (date, hour).  Fails: the constraint only binds slots with the same
\* (user, start, end), not slots that overlap.
C3_CpTasksShareNoHour ==
    pc = "done" =>
        \A a \in CpEntries : \A b \in CpEntries :
            EntryTask(a) # EntryTask(b) => ~SameUserHour(a, b)

\* C4: every task with remaining_hours > 0 of a greedy schedule, and of the solution
\* made from it, has exactly ceil(remaining_hours) slots.
C4_GreedyHourCoverage ==
    /\ \A t \in DOMAIN schedule :
          tasks[t].remaining_hours > 0 =>
              Len(schedule[t]) = (tasks[t].remaining_hours + 1) \div 2
    /\ \A e \in GreedyEntries :
          tasks[EntryTask(e)].remaining_hours > 0 =>
              Len(solution.tasks[e[1]]) = (tasks[EntryTask(e)].remaining_hours + 1) \div 2

\* a greedy solve returned a task of 2.5 hours spread over several dates
C4_Witness ==
    /\ pc = "after_greedy"
    /\ \E t \in DOMAIN schedule :
          /\ tasks[t].remaining_hours = 5
          /\ \E k \in 1..Len(schedule[t]) : schedule[t][k].date # schedule[t][1].date

\* C5: a solution the CP path returns holds every input task with exactly
\* ceil(remaining_hours) hourly entries.  Fails: the constraint is on
\* int(planned_hours), and a task without slots gets no constraint.
C5_CpHourCoverage ==
    (pc = "done" /\ algorithm_used = "ortools" /\ result = "True") =>
        \A t \in TaskIds :
            /\ <<"int", t>> \in DOMAIN solution.tasks
            /\ Len(solution.tasks[<<"int", t>>]) = (tasks[t].remaining_hours + 1) \div 2

\* C6: in the final solution every (user, date, hour) lies inside a calendar row of
\* a task of that user, with the weekday of the date and hour_from <= hour < hour_to.
C6_CalendarRespect ==
    pc = "done" =>
        \A e \in SolutionEntries : \E r \in calendar_slots :
            /\ tasks[r.task_id].user_id = EntryUser(e)
            /\ r.dayofweek = (today_wd + EntryDate(e)) % 7
            /\ r.hour_from <= EntryHour(e)
            /\ EntryHour(e) < r.hour_to

\* a final solution that holds hours placed by greedy and hours placed by CP
C6_Witness == pc = "done" /\ GreedyEntries # {} /\ CpEntries # {}

\* C7: in the final solution no slot lies on a date of a leave of any task of the
\* same user.  Fails: the CP scheduler removes only the slots of the task of the leave.
C7_LeaveRespect ==
    pc = "done" =>
        \A e \in SolutionEntries : \A l \in leaves :
            tasks[l.task_id].user_id = EntryUser(e) =>
                ~(l.date_from <= EntryDate(e) /\ EntryDate(e) <= l.date_to)

\* C8: on every path the earliest scheduled date is tomorrow (UTC) or later.  Fails:
\* the CP scheduler starts its days at the current date.
C8_FutureOnly == pc = "done" => \A e \in SolutionEntries : EntryDate(e) >= 1

\* C9: greedy is selected exactly when T > 50 or H > 1000 or U > 10 or H / T > 100,
\* and when CP is selected no greedy pass is made.
C9_RouterRule ==
    LET T == Cardinality(DOMAIN tasks)
        U == Cardinality({tasks[t].user_id : t \in DOMAIN tasks})
        H2 == SumOver(DOMAIN tasks, [t \in DOMAIN tasks |-> tasks[t].remaining_hours])
    IN  /\ algorithm_used \in {"greedy", "ortools"}
        /\ algorithm_used = "greedy" <=> (T > 50 \/ H2 > 2000 \/ U > 10 \/ H2 > 200 * T)
        /\ algorithm_used = "ortools" =>
              /\ pc \notin {"greedy_pass", "after_greedy"}
              /\ schedule = <<>>
              /\ occupied_slots = {}
              /\ task_idx = 1
              /\ extension_attempts = 0

\* a CP run has ended for an instance of exactly 50 tasks
C9_Witness == pc = "done" /\ algorithm_used = "ortools" /\ Cardinality(DOMAIN tasks) = 50

\* C10: a task count above the configured greedy_threshold_tasks selects greedy.
\* Fails: should_use_greedy compares with its own 50 and never reads the configuration.
C10_ConfiguredTaskThreshold ==
    Cardinality(DOMAIN tasks) > config.greedy_threshold_tasks => algorithm_used = "greedy"

\* the tasks without an assignment in the schedule the greedy solve returned
GreedyUnscheduled == TaskIds \ DOMAIN schedule

\* C11: after a successful greedy solve the residual CP pass runs if and only if
\* between 1 and 20 input tasks have no assignment in the greedy solution, and it is
\* given exactly those tasks.  Fails: the keys of the greedy solution are strings and
\* the ids are integers, so every task counts as unscheduled.
C11_ResidualOnlyUnscheduled ==
    (algorithm_used = "greedy" /\ pc \in {"cp_build", "cp_loop", "done"} /\ GreedySucceeded) =>
        /\ cp.mode = "residual" <=>
              (GreedyUnscheduled # {} /\ Cardinality(GreedyUnscheduled) <= 20)
        /\ cp.mode = "residual" => cp.task_ids = GreedyUnscheduled

\* the residual CP pass ended without a solution: horizon exhausted, or exception
ResidualFailed ==
    /\ pc = "done"
    /\ cp.mode = "residual"
    /\ cp.current_horizon_days > cp.max_horizon_days \/ PlannedColumnMissing(cp)

\* C12: when the residual CP pass finds no solution or raises, solve() returns True and
\* the task map of the solution is the greedy map.
C12_ResidualFailureKeepsGreedy ==
    ResidualFailed =>
        /\ result = "True"
        /\ solution # NoSolution
        /\ solution.tasks = GreedySolution.tasks

\* a residual pass gave up after its last horizon and greedy had scheduled a task
C12_Witness ==
    /\ ResidualFailed
    /\ cp.current_horizon_days > cp.max_horizon_days
    /\ GreedyEntries # {}


\* the CP model the residual pass would build for the tasks ids alone
ResidualModel(ids) ==
    [mode |-> "residual", task_ids |-> ids, current_horizon_days |-> 14,
     factor |-> <<3, 2>>, max_horizon_days |-> 60]

\* the CP scheduler can place every task of ids at the first horizon of the residual
\* pass: each has slots and at least one hour to place, and the model is feasible
CpCanSchedule(ids) ==
    /\ \A t \in ids : /\ tasks[t].planned_hours # NoColumn
                       /\ IntTrunc(tasks[t].planned_hours) >= 1
                       /\ TaskSlots(ResidualModel(ids), t) # {}
    /\ FeasibleAssignments(ResidualModel(ids)) # {}

\* the task ids that have an entry in the final solution, under either kind of key
SolutionTaskIds == {EntryTask(e) : e \in SolutionEntries}

\* C13: when greedy leaves between 1 and 20 tasks unscheduled and the CP scheduler can
\* place them, the final solution holds strictly more distinct tasks than the greedy
\* solution: every residual task under its own id, next to the unchanged greedy
\* entries.  Fails: the residual pass is given every task (C11), and a task greedy
\* had scheduled can make that CP model infeasible.
C13_ResidualFillIn ==
    (/\ pc = "done"
     /\ algorithm_used = "greedy"
     /\ GreedySucceeded
     /\ GreedyUnscheduled # {}
     /\ Cardinality(GreedyUnscheduled) <= 20
     /\ CpCanSchedule(GreedyUnscheduled)) =>
        /\ result = "True"
        /\ GreedyUnscheduled \subseteq SolutionTaskIds
        /\ \A t \in DOMAIN schedule :
              /\ <<"str", t>> \in DOMAIN solution.tasks
              /\ solution.tasks[<<"str", t>>] = GreedySolution.tasks[<<"str", t>>]
        /\ Cardinality(SolutionTaskIds) > Cardinality(DOMAIN schedule)

\* the horizons a CP solve tries: from first, extended while not above max_days
RECURSIVE HorizonsTried(_, _, _)
HorizonsTried(first, factor, max_days) ==
    IF first > max_days THEN {}
    ELSE {first} \cup HorizonsTried(ExtendPlanningHorizon(first, factor), factor, max_days)

\* the CP model _fallback_to_ortools builds, at horizon h
FallbackModel(h) ==
    [mode |-> "fallback", task_ids |-> TaskIds, current_horizon_days |-> h,
     factor |-> <<5, 4>>, max_horizon_days |-> 90]

\* the full task set is CP-feasible at one of the horizons of the fallback
FallbackFeasible ==
    /\ ~PlannedColumnMissing(FallbackModel(14))
    /\ \E h \in HorizonsTried(14, <<5, 4>>, 90) : FeasibleAssignments(FallbackModel(h)) # {}

\* C14: when the greedy solve returns zero assignments, solve() falls back to a CP
\* solve of the full task set; if that instance is feasible within the fallback
\* horizon, solve() returns True with the CP solution and algorithm_used is
\* 'ortools_fallback'.  Fails: the fallback touches model_impl.solver before the
\* model is built, the AttributeError is caught and the fallback returns False.
C14_FallbackSolves ==
    (pc = "done" /\ algorithm_used # "ortools" /\ ~GreedySucceeded) =>
        /\ cp.mode = "fallback"
        /\ FallbackFeasible =>
              /\ result = "True"
              /\ algorithm_used = "ortools_fallback"
              /\ solution # NoSolution
              /\ GreedyEntries = {}

\* C15: solve() returns True if and only if at least one task has a scheduled slot in
\* the resulting solution.  Fails: a CP solve whose tasks have no calendar rows, or
\* less than one planned hour, is OPTIMAL with nothing assigned and returns True.
C15_SuccessIffScheduled ==
    pc = "done" => (result = "True" <=> SolutionEntries # {})

\* C16: when a solve ends with tasks_scheduled < tasks_total, the reported status is
\* PARTIAL, never OPTIMAL or FEASIBLE.  Fails: the greedy statistics report OPTIMAL or
\* FEASIBLE by the success rate, the CP statistics report the solver status.
C16_PartialStatus ==
    (pc = "done" /\ result = "True" /\ StatsTasksScheduled < StatsTasksTotal) =>
        /\ SolverStatuses # {}
        /\ \A status \in SolverStatuses : status = "PARTIAL"

\* C17: an overlap detected by the greedy validation is fatal: neither the greedy
\* solve nor solve() returns success with overlaps_detected > 0.  Fails: the count is
\* logged and stored in the statistics, and the solve goes on.
C17_OverlapIsFatal ==
    greedy_stats.overlaps_detected > 0 =>
        /\ ~(pc = "after_greedy" /\ GreedySucceeded)
        /\ ~(pc = "done" /\ result = "True")

\* the tasks and calendar rows that make the input invalid
InvalidTasks == {t \in TaskIds : tasks[t].remaining_hours < 0}
InvalidRows == {r \in calendar_slots : r.hour_from >= r.hour_to}

\* C18: an input with a task of negative remaining_hours or a calendar row with
\* hour_from >= hour_to is rejected: solve() does not succeed and no schedule or
\* solution ever holds slots of such a task.  Fails: nothing validates the input, and
\* the greedy strategies give a task of -1 hour all hours but the last of a free run.
C18_InvalidInputRejected ==
    (InvalidTasks # {} \/ InvalidRows # {}) =>
        /\ result # "True"
        /\ \A t \in InvalidTasks : t \notin DOMAIN schedule /\ t \notin SolutionTaskIds

\* a greedy pass has visited every task
PassOver == pc = "greedy_pass" /\ task_idx > Len(sorted_tasks)

\* C19: the greedy loop stops at the first pass with success_rate >= 0.8; otherwise,
\* while D < max_horizon_days, it sets D to min(2 * D, max_horizon_days), rebuilds the
\* blocks with an empty ledger and runs another pass; there are at most 5 extensions,
\* D never decreases and never exceeds max_horizon_days.  Fails: the fifth extension
\* is not followed by a pass, the loop ends with the schedule of the shorter horizon.
C19_Step ==
    /\ horizon_days' >= horizon_days
    /\ algorithm_used = "greedy" => horizon_days' <= config.max_horizon_days
    /\ extension_attempts' <= 5
    /\ (PassOver /\ RateReached(schedule)) =>
          /\ pc' = "after_greedy"
          /\ horizon_days' = horizon_days
          /\ extension_attempts' = extension_attempts
    /\ (PassOver /\ ~RateReached(schedule) /\ horizon_days >= config.max_horizon_days) =>
          /\ pc' = "after_greedy"
          /\ horizon_days' = horizon_days
    /\ (PassOver /\ ~RateReached(schedule) /\ horizon_days < config.max_horizon_days) =>
          /\ horizon_days' = Min(2 * horizon_days, config.max_horizon_days)
          /\ extension_attempts' = extension_attempts + 1
          /\ occupied_slots' = {}
          /\ pc' = "greedy_pass"
          /\ task_idx' = 1
          /\ schedule' = <<>>

C19_GreedyRetryLoop == [][C19_Step]_vars

\* C20: on the greedy path, when the first pass stays below 80% with the horizon below
\* its cap (so that the horizon is extended), the final horizon_days is strictly
\* greater than initial_horizon_days and the returned schedule covers at least as
\* many tasks as the first pass did.  Fails: with the longer horizon a long task of
\* high priority, which the first pass could not place, takes the hours that several
\* short tasks of the same user had in the first pass.
C20_HorizonExtension ==
    (/\ algorithm_used = "greedy"
     /\ pc \in {"after_greedy", "cp_build", "cp_loop", "done"}
     /\ extension_log # <<>>) =>
        /\ horizon_days > initial_horizon_days
        /\ GreedySolution.horizon_days > initial_horizon_days
        /\ Cardinality(DOMAIN schedule) >= extension_log[1].scheduled

\* the composite sort key of a task, every component ascending
CompositeKey(t) ==
    <<-tasks[t].priority_score, tasks[t].hierarchy_level,
      IF tasks[t].is_leaf_task THEN 0 ELSE 1, -tasks[t].remaining_hours,
      tasks[t].user_id, t>>

\* lexicographic order of two tuples of integers of one length
LexLess(x, y) ==
    \E k \in 1..Len(x) : x[k] < y[k] /\ \A j \in 1..(k - 1) : x[j] = y[j]

C23_JsonRoundTrip ==
    (pc = "done" /\ result = "True" /\ solution # NoSolution) =>
        JsonLoad(JsonDump(solution.tasks)) = solution.tasks

\* C24: whenever solve() returns False, get_solution_dataframe() returns None or a
\* DataFrame without rows.
C24_FailureHasNoRows ==
    (pc = "done" /\ result = "False") =>
        \/ GetSolutionDataframe(solution) = NoDataframe
        \/ GetSolutionDataframe(solution).rows = <<>>

\* solve() returned False after the greedy model extended its horizon and failed
C24_Witness ==
    /\ pc = "done"
    /\ result = "False"
    /\ algorithm_used = "greedy"
    /\ extension_attempts > 0

\* the sum of remaining_hours of the tasks of user u, in half hours
UserTotalHalves(u) == SumOver(UserTaskIds(u), [t \in TaskIds |-> tasks[t].remaining_hours])

\* ceil(user_total_hours / 40), as the negated floor of the negated quotient
WeeksNeeded(u) == -((-UserTotalHalves(u)) \div 80)

\* floor(w * 7 * 1.5) = floor(21 * w / 2)
BufferedDays(u) == (21 * WeeksNeeded(u)) \div 2

\* C25: before the first greedy pass the horizon is
\* min(max(D0, max over users of floor(ceil(user_total_hours / 40) * 7 * 1.5)), max_horizon_days),
\* D0 being the horizon the model was constructed with.
C25_InitialHorizon ==
    (algorithm_used = "greedy" /\ extension_attempts = 0 /\ pc = "greedy_pass" /\ task_idx = 1) =>
        \E needed \in {initial_horizon_days} \cup {BufferedDays(u) : u \in Users} :
            /\ needed >= initial_horizon_days
            /\ \A u \in Users : needed >= BufferedDays(u)
            /\ horizon_days = IF needed <= config.max_horizon_days
                              THEN needed ELSE config.max_horizon_days

\* the first greedy pass starts with a horizon that the workload of a user raised over
\* the constructed one and that the maximum did not cut
C25_Witness ==
    /\ algorithm_used = "greedy"
    /\ extension_attempts = 0
    /\ pc = "greedy_pass"
    /\ task_idx = 1
    /\ horizon_days > initial_horizon_days
    /\ horizon_days < config.max_horizon_days

\* C26: when the greedy scheduler commits the slots of a task, every (date, hour) of
\* them was absent from the user's ledger just before, the slots are pairwise distinct,
\* and the ledger grows by exactly ceil(remaining_hours) hours.  Fails: the multi-day
\* strategy takes an hour once per block that holds it, and nothing checks the list
\* against the ledger before the commit.
C26_Step ==
    (pc = "greedy_pass" /\ task_idx <= Len(sorted_tasks) /\ schedule' # schedule) =>
        LET t == sorted_tasks[task_idx]
            u == tasks[t].user_id
            slots == schedule'[t]
        IN  /\ \A k \in 1..Len(slots) : <<u, slots[k].date, slots[k].hour>> \notin occupied_slots
            /\ \A j \in 1..Len(slots) : \A k \in 1..Len(slots) :
                  j # k => <<slots[j].date, slots[j].hour>> # <<slots[k].date, slots[k].hour>>
            /\ Cardinality(occupied_slots' \ occupied_slots) = Ceil(tasks[t].remaining_hours)

C26_CommitDisjointFromLedger == [][C26_Step]_vars

\* C27: a task that no strategy can place leaves the ledger and the assignments of the
\* tasks placed before it unchanged and is absent from the schedule; the loop goes on
\* with the next task of the order against the same ledger.
C27_Step ==
    (pc = "greedy_pass" /\ task_idx <= Len(sorted_tasks)
        /\ sorted_tasks[task_idx] \notin DOMAIN schedule') =>
        /\ schedule' = schedule
        /\ occupied_slots' = occupied_slots
        /\ pc' = "greedy_pass"
        /\ task_idx' = task_idx + 1

C27_TaskFailureIsLocal == [][C27_Step]_vars

\* a pass is over in which a task was placed, a later one was not, and one after it
\* was placed again
C27_Witness ==
    /\ PassOver
    /\ \E i \in 1..Len(sorted_tasks) : \E j \in 1..Len(sorted_tasks) : \E k \in 1..Len(sorted_tasks) :
          /\ i < j /\ j < k
          /\ sorted_tasks[i] \in DOMAIN schedule
          /\ sorted_tasks[j] \notin DOMAIN schedule
          /\ sorted_tasks[k] \in DOMAIN schedule

\* the free (date, hour) pairs of user u: in a block of the user and not in the ledger
UserFreeHours(u) == {<<e[1], e[3]>> : e \in FreeEntries(u)}

\* the first n pairs of a set of (date, hour) pairs by date, then hour
FirstHours(S, n) == FirstByKey(S, [p \in S |-> p[1] * 24 + p[2]], n)

\* C28: when the multi-day strategy places a task, its slots are exactly the
\* chronologically first h free hours of the user (by date, then hour), none skipped.
\* Fails: an hour that two overlapping blocks of a date hold is taken twice.
C28_MultiDayTakesFirstFreeHours ==
    (pc = "greedy_pass" /\ task_idx <= Len(sorted_tasks)) =>
        LET t == sorted_tasks[task_idx]
            u == tasks[t].user_id
            h == Ceil(tasks[t].remaining_hours)
            placed == FindMultiDaySlots(u, h, t)
        IN  (FindSingleDaySlots(u, h, t) = <<>> /\ placed # <<>>) =>
                [k \in 1..Len(placed) |-> <<placed[k].date, placed[k].hour>>]
                    = FirstHours(UserFreeHours(u), h)

\* the calendar rows of the tasks of user u
RowsOfUser(u) == {r \in calendar_slots : tasks[r.task_id].user_id = u}

\* C29: a calendar row with hour_to = 24 gives the usable hours hour_from..23: the only
\* task of a user whose rows all end at 24, needing h <= 24 - hour_from hours while a
\* date of the horizon matches the row and is not on leave, is scheduled by the greedy
\* pass on hours inside [hour_from, 24).  Fails: the block ends at hour 0 of the next
\* day and the scans over [start_hour, end_hour) visit no hour.
C29_HourTo24Usable ==
    (algorithm_used = "greedy" /\ PassOver) =>
        \A t \in TaskIds :
            LET u == tasks[t].user_id
                h == Ceil(tasks[t].remaining_hours)
            IN  \A r \in RowsOfUser(u) :
                    (/\ UserTaskIds(u) = {t}
                     /\ \A x \in RowsOfUser(u) : x.hour_to = 24
                     /\ h >= 1
                     /\ h <= 24 - r.hour_from
                     /\ \E d \in GreedyFirstDay..(GreedyFirstDay + horizon_days - 1) :
                           /\ Weekday(d) = r.dayofweek
                           /\ \A l \in leaves : l.task_id = t => (d < l.date_from \/ d > l.date_to))
                    => /\ t \in DOMAIN schedule
                       /\ \A k \in 1..Len(schedule[t]) :
                             \E x \in RowsOfUser(u) : schedule[t][k].hour \in x.hour_from..23

\* the (date, hour_from, hour_to) a block is due for: a date of the horizon, a calendar
\* row of a task of user u on the weekday of the date with hour_to > hour_from, and no
\* leave of a task of the user over the date
DueBlocks(u) ==
    UNION {{<<d, r.hour_from, r.hour_to>> :
               d \in {x \in GreedyFirstDay..(GreedyFirstDay + horizon_days - 1) :
                         /\ Weekday(x) = r.dayofweek
                         /\ \A l \in leaves :
                               tasks[l.task_id].user_id = u => (x < l.date_from \/ x > l.date_to)}} :
            r \in {y \in RowsOfUser(u) : y.hour_to > y.hour_from}}

\* C30: the block list of each user holds exactly one block per date of the horizon and
\* deduplicated calendar triple of the user's tasks on that weekday with
\* hour_to > hour_from, without the blocks of the dates inside a leave of any of the
\* user's tasks (dropped whole), in ascending order of start_datetime.
C30_BlockList ==
    (algorithm_used = "greedy" /\ pc = "greedy_pass" /\ task_idx = 1) =>
        \A u \in Users :
            LET blocks == AvailableBlocks(u)
            IN  /\ {<<blocks[i].date, blocks[i].start_hour,
                       blocks[i].start_hour + blocks[i].duration_hours>> : i \in 1..Len(blocks)}
                      = DueBlocks(u)
                /\ Len(blocks) = Cardinality(DueBlocks(u))
                /\ \A i \in 1..(Len(blocks) - 1) :
                      blocks[i].date * 24 + blocks[i].start_hour
                          <= blocks[i + 1].date * 24 + blocks[i + 1].start_hour

\* a pass starts for a user with two blocks on one date and a leave over another date
\* of the horizon on which a calendar row of the user falls
C30_Witness ==
    /\ algorithm_used = "greedy" /\ pc = "greedy_pass" /\ task_idx = 1
    /\ \E u \in Users :
          /\ \E i \in 1..(Len(AvailableBlocks(u)) - 1) :
                AvailableBlocks(u)[i].date = AvailableBlocks(u)[i + 1].date
          /\ \E l \in leaves : \E r \in RowsOfUser(u) :
                /\ tasks[l.task_id].user_id = u
                /\ \E d \in GreedyFirstDay..(GreedyFirstDay + horizon_days - 1) :
                      Weekday(d) = r.dayofweek /\ l.date_from <= d /\ d <= l.date_to

\* the hours [hour_from, hour_to) of an interval <<hour_from, hour_to>>
IntervalHours(iv) == iv[1] .. (iv[2] - 1)

\* C31: for each (task_id, dayofweek) the CP slot enumeration merges the calendar rows
\* into maximal contiguous weekly intervals: pairwise disjoint, non-adjacent, covering
\* exactly the union of the rows.  Fails: a row is merged only when its hour_from
\* equals the current end, so a row that starts inside the current interval opens a
\* second interval over hours the first one already holds.
C31_MergedIntervalsMaximal ==
    cp # NoCp =>
        \A t \in cp.task_ids : \A dow \in 0..6 :
            LET merged == MergedIntervals(t, dow)
                rows == {r \in calendar_slots : r.task_id = t /\ r.dayofweek = dow}
            IN  /\ \A i \in 1..Len(merged) : \A j \in 1..Len(merged) :
                      i # j => /\ IntervalHours(merged[i]) \cap IntervalHours(merged[j]) = {}
                               /\ merged[i][2] # merged[j][1]
                /\ UNION {IntervalHours(merged[i]) : i \in 1..Len(merged)}
                      = UNION {r.hour_from .. (r.hour_to - 1) : r \in rows}

\* C32: every CP horizon extension sets the horizon to
\* max(ceil(D * extension_factor), D + 7): D = 30 with factor 1.25 becomes 38.
\* Fails: the product is truncated, not rounded up.
C32_Step ==
    (cp # NoCp /\ cp' # NoCp /\ cp'.mode = cp.mode
        /\ cp'.current_horizon_days # cp.current_horizon_days) =>
        LET D == cp.current_horizon_days
            scaled == -((-(D * cp.factor[1])) \div cp.factor[2])
        IN  cp'.current_horizon_days = IF scaled >= D + 7 THEN scaled ELSE D + 7

C32_CpExtensionRoundsUp == [][C32_Step]_vars

\* C33: the CP solve loop terminates.  A step of the loop that stays in the loop is one
\* horizon extension after a solve at a horizon within max_horizon_days; no solution is
\* taken at a horizon over max_horizon_days; once the horizon is over it the loop
\* returns False and sets no solution (a residual pass keeps the greedy one).
C33_Step ==
    pc = "cp_loop" =>
        /\ pc' = "cp_loop" =>
              /\ cp.current_horizon_days <= cp.max_horizon_days
              /\ cp'.current_horizon_days > cp.current_horizon_days
              /\ solution' = solution /\ result' = result
        /\ (pc' = "done" /\ cp.current_horizon_days <= cp.max_horizon_days) =>
              result' = "True"
        /\ (pc' = "done" /\ cp.current_horizon_days > cp.max_horizon_days) =>
              /\ solution' = solution
              /\ cp.mode # "residual" => (result' = "False" /\ solution' = NoSolution)

C33_CpLoopTerminates ==
    /\ [][C33_Step]_vars
    /\ (pc = "cp_loop") ~> (pc = "done")

\* a direct CP solve extended its horizon until it passed max_horizon_days and
\* returned False
C33_Witness ==
    /\ pc = "done"
    /\ cp # NoCp /\ cp.mode = "direct"
    /\ cp.current_horizon_days > cp.max_horizon_days
    /\ cp.current_horizon_days > initial_horizon_days + 7
    /\ result = "False"

\* the free block-hours of user u: the (date, hour) of every due block that the ledger
\* does not hold
FreeBlockHours(u) ==
    UNION {{<<b[1], hr>> : hr \in {x \in b[2]..(b[3] - 1) : <<u, b[1], x>> \notin occupied_slots}} :
            b \in DueBlocks(u)}

\* C34: the flexible and the multi-week strategy never place a task that the multi-day
\* strategy could not place, so a greedy pass places a task if and only if h >= 1 and
\* the user has at least h free block-hours when the task is processed.  Fails: the
\* multi-day strategy counts an hour of two overlapping blocks twice, blocks that end
\* at 24 give no hour, and a task with h < 0 is placed.
C34_PlacedIffEnoughFreeHours ==
    (pc = "greedy_pass" /\ task_idx <= Len(sorted_tasks)) =>
        LET t == sorted_tasks[task_idx]
            u == tasks[t].user_id
            h == Ceil(tasks[t].remaining_hours)
        IN  /\ FindMultiDaySlots(u, h, t) = <<>> =>
                  /\ FindFlexibleSlotsImproved(u, h, t) = <<>>
                  /\ FindDistributedSlots(u, h, t) = <<>>
            /\ FindConsecutiveSlots(u, tasks[t].remaining_hours, t) # <<>>
                  <=> (h >= 1 /\ Cardinality(FreeBlockHours(u)) >= h)

\* C35: when the greedy solve returns, the reported horizon_days is the horizon the
\* returned schedule was computed over: every extension, the fifth included, was
\* followed by a pass over the rebuilt blocks, so the ledger holds exactly the slots of
\* the returned schedule.  Fails: the fifth extension doubles the horizon and empties
\* the ledger, and the loop ends without another pass.
C35_ReturnedHorizonWasUsed ==
    (algorithm_used = "greedy" /\ pc = "after_greedy") =>
        occupied_slots =
            UNION {{<<schedule[t][k].user_id, schedule[t][k].date, schedule[t][k].hour>> :
                       k \in 1..Len(schedule[t])} : t \in DOMAIN schedule}

\* the first slot of a scheduled task, as date * 24 + hour
FirstSlot(t) ==
    CHOOSE x \in {schedule[t][k].date * 24 + schedule[t][k].hour : k \in 1..Len(schedule[t])} :
        \A y \in {schedule[t][k].date * 24 + schedule[t][k].hour : k \in 1..Len(schedule[t])} :
            x <= y

\* C36: of two tasks of one user that a greedy pass both scheduled, the one that comes
\* earlier in the sort order has a first slot (date, hour) not later than the first
\* slot of the other.  Fails: a task that finds no run long enough in the first block
\* skips to a later block, and a shorter task of lower priority fills the hour left.
C36_PriorityOrderOnCalendar ==
    (algorithm_used = "greedy" /\ PassOver) =>
        \A i \in 1..Len(sorted_tasks) : \A j \in 1..Len(sorted_tasks) :
            (/\ i < j
             /\ tasks[sorted_tasks[i]].user_id = tasks[sorted_tasks[j]].user_id
             /\ sorted_tasks[i] \in DOMAIN schedule
             /\ sorted_tasks[j] \in DOMAIN schedule)
            => FirstSlot(sorted_tasks[i]) <= FirstSlot(sorted_tasks[j])

\* C37: after solve() returned with a solution, every input task appears at most once
\* among the keys of solution['tasks'], and the statistics report
\* tasks_scheduled <= tasks_total.  Fails: the residual CP model re-schedules tasks the
\* greedy model placed and the merge keeps both the str key and the int key of a task.
C37_TaskAppearsOnce ==
    (pc = "done" /\ solution # NoSolution) =>
        /\ \A t \in TaskIds :
              ~(<<"str", t>> \in DOMAIN solution.tasks /\ <<"int", t>> \in DOMAIN solution.tasks)
        /\ StatsTasksScheduled <= StatsTasksTotal

\* the _run_scheduler threads that were started and have not returned
ActiveThreads == {r \in Requests : thread[r].pc \notin {"none", "finished"}}

\* no request is inside post and no _run_scheduler thread is active
ApiQuiescent ==
    /\ \A r \in Requests : post[r].pc \in {"new", "done"}
    /\ ActiveThreads = {}

\* C38: the API runs at most one scheduling job at a time: never two _run_scheduler
\* threads are active at once.  Fails: the status check of post (line 111) and the switch
\* to 'running' (line 159) are separate steps with no lock, so two requests pass the
\* check; and the thread writes 'completed' three lines before it returns, so a request
\* passes the check while the earlier thread is still active.
C38_AtMostOneJob ==
    Cardinality(ActiveThreads) <= 1

\* C39: once every accepted job has ended, the status is 'completed' or 'error' with a
\* non-null end_time, and last_result_path is non-null only with the status 'completed'.
\* Fails: a thread that writes last_result_path after a later job wrote 'error' leaves
\* the status 'error' with a result path.
C39_JobEndsWithConsistentStatus ==
    (ApiQuiescent /\ \E r \in Requests : thread[r].pc = "finished") =>
        /\ scheduler_status.status \in {"completed", "error"}
        /\ scheduler_status.end_time # NoneValue
        /\ scheduler_status.last_result_path # NoneValue
               => scheduler_status.status = "completed"

====
